---- MODULE Spec2Model ----
(***************************************************************************)
(* Model of the keyed async memoization cache `createCache` of the         *)
(* ilmomasiina backend (util/cache): hashObject, cachedGet, invalidate     *)
(* and the completion handlers attached to the producer's promise.         *)
(*                                                                         *)
(* Strings are sequences of one-character strings.  The SHA-256 digest is  *)
(* taken to be injective on the byte stream fed to it, so a digest is      *)
(* represented by that stream.                                             *)
(*                                                                         *)
(* A call of the wrapped function that misses is two steps: up to the      *)
(* invocation get(key) of the producer, and from the return of get(key)    *)
(* on.  Between the two runs the synchronous part of the producer, which   *)
(* may take time, call the cache, and throw.  The settling of a producer   *)
(* promise and the reaction registered on it are two steps as well: the    *)
(* promise may settle at any point, while a call is open too, and the      *)
(* reaction is a job of its own, run when no call is on the stack.  A      *)
(* caller holds the promise it was handed, so what it receives is the      *)
(* outcome of that promise.                                                *)
(***************************************************************************)
EXTENDS Integers, Sequences, FiniteSets, TLC

VARIABLES
  testing,          \* process.env.NODE_ENV === "test" && !allowTesting
  maxAgeMs,         \* option maxAgeMs
  maxPendingAgeMs,  \* option maxPendingAgeMs after defaulting
  maxSize,          \* option maxSize after defaulting
  now,              \* Date.now()
  cache,            \* the Map, in insertion order: <<[hashedKey, get]>>
  gets,             \* the invocations get(key) of the producer, by id
  ongoing,          \* the Ongoing objects, by id
  stack,            \* the calls whose get(key) has not returned, innermost last
  lastCall,         \* what the latest step did, when it was a call
  lastSettle,       \* what the latest step did, when it settled a producer
  lastInvalidate    \* what the latest step did, when it was an invalidate

vars ==
  <<testing, maxAgeMs, maxPendingAgeMs, maxSize, now, cache, gets, ongoing,
    stack, lastCall, lastSettle, lastInvalidate>>

----------------------------------------------------------------------------
(* Bounds of the model.                                                    *)

MaxTime == 1
MaxPending == 2

----------------------------------------------------------------------------
(* Key values.                                                             *)

Undefined == [t |-> "undefined"]
Null == [t |-> "null"]
Num(n) == [t |-> "number", n |-> n]
Str(s) == [t |-> "string", s |-> s]
Bool(b) == [t |-> "boolean", b |-> b]
\* f is a sequence of <<name, value>> pairs with distinct names, in the
\* order the fields were written.
Obj(f) == [t |-> "object", f |-> f]

\* The characters used, in ascending UTF-16 code-unit order.
Alphabet ==
  <<"0", "1", "2", "3", "4", "5", "6", "7", "8", "9",
    "a", "b", "c", "d", "e", "f", "g", "h", "i", "j", "k", "l", "m",
    "n", "o", "p", "q", "r", "s", "t", "u", "v", "w", "x", "y", "z">>

\* Position of a character in the code-unit order.
Code(c) == CHOOSE i \in 1..Len(Alphabet) : Alphabet[i] = c

\* String(n) for a non-negative integer n.
RECURSIVE NumToString(_)
NumToString(n) ==
  IF n < 10 THEN <<Alphabet[n + 1]>>
  ELSE NumToString(n \div 10) \o <<Alphabet[(n % 10) + 1]>>

\* String(obj) for null, undefined and the scalars.
StringOf(obj) ==
  CASE obj.t = "null" -> <<"n", "u", "l", "l">>
    [] obj.t = "undefined" -> <<"u", "n", "d", "e", "f", "i", "n", "e", "d">>
    [] obj.t = "number" -> NumToString(obj.n)
    [] obj.t = "boolean" ->
         IF obj.b THEN <<"t", "r", "u", "e">> ELSE <<"f", "a", "l", "s", "e">>
    [] obj.t = "string" -> obj.s

\* a < b in the code-unit order Array.prototype.sort uses by default.
RECURSIVE StrLess(_, _)
StrLess(a, b) ==
  IF b = <<>> THEN FALSE
  ELSE IF a = <<>> THEN TRUE
  ELSE IF Head(a) # Head(b) THEN Code(Head(a)) < Code(Head(b))
  ELSE StrLess(Tail(a), Tail(b))

\* Object.keys(obj).sort(): the field names in ascending order.
RECURSIVE SortNames(_)
SortNames(names) ==
  IF names = {} THEN <<>>
  ELSE LET m == CHOOSE x \in names : \A y \in names \ {x} : StrLess(x, y)
       IN <<m>> \o SortNames(names \ {m})

\* ObjectKeys, were the names taken in the order they were written.
ObjectKeysAsWritten(obj) == [i \in 1..Len(obj.f) |-> obj.f[i][1]]

\* Line 34.
ObjectKeys(obj) == SortNames({obj.f[i][1] : i \in 1..Len(obj.f)})

\* obj[key]
Field(obj, key) ==
  LET i == CHOOSE j \in 1..Len(obj.f) : obj.f[j][1] = key IN obj.f[i][2]

\* The stream processObject feeds to hash.update, in order.
RECURSIVE processObject(_)
RECURSIVE processFields(_, _)
processObject(obj) ==
  IF obj.t = "null" \/ obj.t = "undefined" THEN StringOf(obj)
  ELSE IF obj.t = "object" THEN processFields(obj, ObjectKeys(obj))
  ELSE StringOf(obj)
processFields(obj, keys) ==
  IF keys = <<>> THEN <<>>
  ELSE Head(keys) \o processObject(Field(obj, Head(keys)))
         \o processFields(obj, Tail(keys))

hashObject(object) == processObject(object)

\* The truthiness test of `if (key)`.
Truthy(obj) ==
  CASE obj.t = "null" -> FALSE
    [] obj.t = "undefined" -> FALSE
    [] obj.t = "number" -> obj.n # 0
    [] obj.t = "boolean" -> obj.b
    [] obj.t = "string" -> obj.s # <<>>
    [] obj.t = "object" -> TRUE

----------------------------------------------------------------------------
(* The keys the callers use, and the options the cache is created with.    *)

\* Keys 1 to 5 are those of the callers of the cache; keys 6 to 10 are the
\* shapes of the options the event list is cached by (getEventsList.ts, a
\* category "c" and a since "s"), written in either order, with one value
\* or two, and nested.
Keys ==
  << Num(0),
     Str(<<"a">>),
     Obj(<< <<(<<"a">>), Str(<<"b">>)>> >>),
     Str(<<>>),
     Bool(FALSE),
     Obj(<< <<(<<"c">>), Str(<<"a">>)>>, <<(<<"s">>), Str(<<"b">>)>> >>),
     Obj(<< <<(<<"s">>), Str(<<"b">>)>>, <<(<<"c">>), Str(<<"a">>)>> >>),
     Obj(<< <<(<<"c">>), Str(<<"a", "s", "b">>)>> >>),
     Obj(<< <<(<<"c">>), Obj(<< <<(<<"x">>), Str(<<"1">>)>>,
                                <<(<<"y">>), Str(<<"2">>)>> >>)>> >>),
     Obj(<< <<(<<"c">>), Obj(<< <<(<<"y">>), Str(<<"2">>)>>,
                                <<(<<"x">>), Str(<<"1">>)>> >>)>> >>) >>

KeyIds == {1, 2, 3, 4, 5}

\* The keys the wrapped function is called with; invalidate is called with
\* any key, or none.
CallKeys == {1, 2, 3}

\* The keys the event list is called with: the same options written in
\* either order, and other options with the same characters.
OptionKeys == {6, 7, 8}

\* invalidate() is invalidate(undefined).
NoKey == 0
KeyArg(k) == IF k = NoKey THEN Undefined ELSE Keys[k]

\* An optional option is <<>> when absent and <<v>> when given.
Options ==
  { [maxAgeMs |-> 1, maxPendingAgeMs |-> <<2>>, maxSize |-> <<2>>, testing |-> FALSE],
    [maxAgeMs |-> 1, maxPendingAgeMs |-> <<>>, maxSize |-> <<1>>, testing |-> FALSE],
    [maxAgeMs |-> 2, maxPendingAgeMs |-> <<0>>, maxSize |-> <<1>>, testing |-> FALSE],
    [maxAgeMs |-> 1, maxPendingAgeMs |-> <<>>, maxSize |-> <<>>, testing |-> TRUE] }

DefaultMaxSize == 128

\* Outcomes of a promise.
Pending == [kind |-> "pending", v |-> "-"]
Resolved(v) == [kind |-> "value", v |-> v]
Rejected(e) == [kind |-> "error", v |-> e]
Values == {"V1"}
Errors == {"E1"}
Outcomes == {Resolved(v) : v \in Values} \cup {Rejected(e) : e \in Errors}

----------------------------------------------------------------------------
(* The Map.                                                                *)

MapHas(m, h) == \E i \in 1..Len(m) : m[i].hashedKey = h

\* cache.get(hashedKey): the Ongoing stored under the key, 0 for undefined.
MapGet(m, h) ==
  IF MapHas(m, h)
  THEN LET i == CHOOSE j \in 1..Len(m) : m[j].hashedKey = h IN m[i].get
  ELSE 0

\* cache.delete(hashedKey)
MapDelete(m, h) == SelectSeq(m, LAMBDA e : e.hashedKey # h)

\* cache.set(hashedKey, newGet): an existing key keeps its position.
MapSet(m, h, g) ==
  IF MapHas(m, h)
  THEN [i \in 1..Len(m) |->
          IF m[i].hashedKey = h THEN [hashedKey |-> h, get |-> g] ELSE m[i]]
  ELSE Append(m, [hashedKey |-> h, get |-> g])

\* Array.from(cache.keys())
MapKeys(m) == [i \in 1..Len(m) |-> m[i].hashedKey]

\* Array.prototype.slice(0, end) for an integer end.
Slice0(a, end) ==
  LET e == IF end < 0 THEN IF Len(a) + end < 0 THEN 0 ELSE Len(a) + end
           ELSE IF end > Len(a) THEN Len(a) ELSE end
  IN SubSeq(a, 1, e)

RECURSIVE DeleteAll(_, _)
DeleteAll(m, ks) ==
  IF ks = <<>> THEN m ELSE DeleteAll(MapDelete(m, Head(ks)), Tail(ks))

----------------------------------------------------------------------------
(* The heap.  Producer invocations and Ongoing objects are identified by   *)
(* their rank in creation order among the objects still reachable; an      *)
(* Ongoing has the id of the invocation it wraps.  An object stays in the  *)
(* heap while something can still reach it: the Map, the producer that     *)
(* has yet to settle it, the reaction that has yet to run on it, or the    *)
(* call that has yet to build it.                                          *)

Put(f, i, r) == [j \in DOMAIN f \cup {i} |-> IF j = i THEN r ELSE f[j]]

Unsettled(g) == {i \in DOMAIN g : g[i].result = Pending}

\* The objects whose promise is pending, those yet to be built included.
Unreacted(o) == {i \in DOMAIN o : o[i].promise = Pending}

\* Reachable, were a computation dropped with its entry.
ReachableCachedOnly(c, g, o, st) ==
  {c[i].get : i \in 1..Len(c)} \cup {st[i].get : i \in 1..Len(st)}

Reachable(c, g, o, st) ==
  {c[i].get : i \in 1..Len(c)} \cup Unsettled(g) \cup Unreacted(o)
    \cup {st[i].get : i \in 1..Len(st)}

\* The position of object i among the objects of `live`; 0 stays 0.
Rank(live, i) == Cardinality({j \in live : j <= i})

\* The object of `live` at position r.
Unrank(live, r) == CHOOSE i \in live : Rank(live, i) = r

\* The next free id.
FreshId == Len(gets) + 1

----------------------------------------------------------------------------
(* createCache                                                             *)

\* What the latest step did when it was a step of a call of the wrapped
\* function: its key, what cache.get found (id 0 and state "none" for
\* undefined; at "store", the entry cache.delete(hashedKey) removed), the
\* keys it evicted, the object whose promise the call returns, whether the
\* call invokes the producer, and which step it was:
\* "reuse" (lines 72-82), "invoke" (lines 72-86, up to get(key); line 65
\* when the cache is disabled), "store" (lines 86-109, get(key) has
\* returned), "return" (line 65, get(key) has returned) or "throw" (get(key)
\* threw).
Nothing == [id |-> 0, state |-> "none", created |-> 0, started |-> 0]
NoCall ==
  [ key |-> NoKey, currentGet |-> Nothing, extraKeys |-> <<>>,
    id |-> 0, invoked |-> FALSE, did |-> "none" ]

\* What the latest step did when it settled a producer invocation or ran
\* the reaction on it: the key of the invocation, its outcome, and the
\* outcome of newGet.promise, the promise the cache made of it (pending
\* until the reaction has run), which the promise of every call served by
\* it adopts.
NoSettle == [key |-> NoKey, result |-> Pending, promise |-> Pending]

\* What the latest step did when it was an invalidate: the key passed
\* (NoKey for none) and the size of the Map before it.
NoInvalidate == [called |-> FALSE, key |-> NoKey, size |-> 0]

Init ==
  \E o \in Options :
    /\ testing = o.testing
    /\ maxAgeMs = o.maxAgeMs
    /\ maxPendingAgeMs =
         IF o.maxPendingAgeMs = <<>> THEN o.maxAgeMs ELSE o.maxPendingAgeMs[1]
    /\ maxSize = IF o.maxSize = <<>> THEN DefaultMaxSize ELSE o.maxSize[1]
    /\ now = 0
    /\ cache = <<>>
    /\ gets = <<>>
    /\ ongoing = <<>>
    /\ stack = <<>>
    /\ lastCall = NoCall
    /\ lastSettle = NoSettle
    /\ lastInvalidate = NoInvalidate

\* Reusable, were a running call never joined.
ReusableSuccessOnly(currentGet) ==
  currentGet.state = "success" /\ currentGet.created > now - maxAgeMs

\* Reusable, were a failed call cached like a successful one.
ReusableSettled(currentGet) ==
  \/ currentGet.state = "running" /\ currentGet.created > now - maxPendingAgeMs
  \/ currentGet.state # "running" /\ currentGet.created > now - maxAgeMs


\* Reusable, were a call running since this very instant always joined.
ReusableSameInstant(currentGet) ==
  \/ currentGet.state = "running"
       /\ (currentGet.created > now - maxPendingAgeMs \/ currentGet.created = now)
  \/ currentGet.state = "success" /\ currentGet.created > now - maxAgeMs



\* Lines 77-81: may currentGet be reused at this instant?
Reusable(currentGet) ==
  \/ currentGet.state = "running" /\ currentGet.created > now - maxPendingAgeMs
  \/ currentGet.state = "success" /\ currentGet.created > now - maxAgeMs

\* currentGet as the call saw it, with the instant its producer invocation
\* was started.
Seen(cur) ==
  IF cur = 0 THEN Nothing
  ELSE [ id |-> cur, state |-> ongoing[cur].state,
         created |-> ongoing[cur].created, started |-> gets[cur].started ]

\* Line 86 (line 65 when the cache is disabled): get(key) is invoked.
Get(k) == [key |-> k, started |-> now, result |-> Pending]

\* The place of the object of invocation id while get(key) has not returned:
\* newGet is not built yet.
NotYet(id) ==
  [get |-> id, created |-> 0, state |-> "none", promise |-> Pending]


\* Lines 85-98: newGet, built when get(key) has returned its promise.
NewGet(id) ==
  [get |-> id, created |-> now, state |-> "running", promise |-> Pending]

\* Bump, were the key set without being deleted first.
BumpInPlace(m, h, g) == MapSet(m, h, g)

\* Lines 99-101: delete, then set, to bump the key to the end.
Bump(m, h, g) == MapSet(MapDelete(m, h), h, g)

Call(k, cur, extraKeys, id, did) ==
  [ key |-> k, currentGet |-> Seen(cur), extraKeys |-> extraKeys,
    id |-> id, invoked |-> did # "reuse", did |-> did ]

\* The heap after a step: unreachable objects are dropped and the rest
\* renumbered in creation order.  The caller holds the promise the call has
\* just returned, so the object of lc.id is reachable for this step.
Store(c, g, o, st, lc) ==
  LET live == Reachable(c, g, o, st) \cup ({lc.id} \cap DOMAIN g)
      n == Cardinality(live)
  IN IF live = DOMAIN g
     THEN /\ cache' = c /\ gets' = g /\ ongoing' = o /\ stack' = st
          /\ lastCall' = lc
     ELSE /\ cache' = [i \in 1..Len(c) |-> [c[i] EXCEPT !.get = Rank(live, @)]]
          /\ gets' = [r \in 1..n |-> g[Unrank(live, r)]]
          /\ ongoing' = IF o = <<>> THEN <<>>
                        ELSE [r \in 1..n |-> [o[Unrank(live, r)] EXCEPT !.get = r]]
          /\ stack' = [i \in 1..Len(st) |-> [st[i] EXCEPT !.get = Rank(live, @)]]
          /\ lastCall' = [lc EXCEPT !.id = Rank(live, @)]

\* The innermost call whose get(key) has not returned.
Top == stack[Len(stack)]
Pop == SubSeq(stack, 1, Len(stack) - 1)

\* Line 65: the wrapped function when the cache is disabled, up to the
\* invocation get(key), whose synchronous part then runs.
dummyGet(k) ==
  LET id == FreshId
  IN Store(cache, Put(gets, id, Get(k)), ongoing,
           Append(stack, [key |-> k, get |-> id]),
           Call(k, 0, <<>>, id, "invoke"))

\* Line 65: get(key) has returned its promise, which dummyGet returns.
dummyGetReturn ==
  Store(cache, gets, ongoing, Pop, Call(Top.key, 0, <<>>, Top.get, "return"))

\* Line 65: get(key) throws, and so does dummyGet: no promise is returned.
dummyGetThrow(error) ==
  Store(cache, [gets EXCEPT ![Top.get].result = Rejected(error)], ongoing,
        Pop, Call(Top.key, 0, <<>>, 0, "throw"))

\* ExtraKeys, were one key too few deleted.
ExtraKeysShort(m, size) ==
  IF Len(m) > size THEN Slice0(MapKeys(m), Len(m) - size - 1) ELSE <<>>

\* ExtraKeys, were the keys taken from the recent end of the Map.
ExtraKeysRecent(m, size) ==
  IF Len(m) > size
  THEN SubSeq(MapKeys(m), size + 1, Len(m))
  ELSE <<>>

\* Lines 103-107: the keys to delete as least recently used.
ExtraKeys(m, size) ==
  IF Len(m) > size THEN Slice0(MapKeys(m), Len(m) - size) ELSE <<>>

\* Lines 72-86: the lookup, and the reuse of currentGet or the invocation
\* get(key), whose synchronous part then runs.
cachedGet(k) ==
  LET hashedKey == hashObject(Keys[k])
      currentGet == MapGet(cache, hashedKey)
  IN IF currentGet # 0 /\ Reusable(ongoing[currentGet])
     THEN Store(cache, gets, ongoing, stack,
                Call(k, currentGet, <<>>, currentGet, "reuse"))
     ELSE LET id == FreshId
          IN Store(cache,
                   Put(gets, id, Get(k)),
                   Put(ongoing, id, NotYet(id)),
                   Append(stack, [key |-> k, get |-> id]),
                   Call(k, currentGet, <<>>, id, "invoke"))

\* Lines 86-109: get(key) has returned its promise; newGet is built, set in
\* the Map under the hashedKey of line 73, and the extra keys are deleted.
cachedGetReturn ==
  LET id == Top.get
      hashedKey == hashObject(Keys[Top.key])
      inserted == Bump(cache, hashedKey, id)
      extraKeys == ExtraKeys(inserted, maxSize)
  IN Store(DeleteAll(inserted, extraKeys),
           gets,
           Put(ongoing, id, NewGet(id)),
           Pop,
           Call(Top.key, MapGet(cache, hashedKey), extraKeys, id, "store"))

\* Line 86: get(key) throws; the exception leaves cachedGet, whose promise
\* rejects with it, and nothing is built or stored.
cachedGetThrow(error) ==
  LET id == Top.get
  IN Store(cache,
           [gets EXCEPT ![id].result = Rejected(error)],
           [ongoing EXCEPT ![id].promise = Rejected(error)],
           Pop,
           Call(Top.key, 0, <<>>, 0, "throw"))

\* A caller, or the synchronous part of a producer, calls the function
\* createCache returned.
CallGet(k) ==
  /\ Cardinality(Unsettled(gets) \cup Unreacted(ongoing)
                   \cup {stack[i].get : i \in 1..Len(stack)}) < MaxPending
  /\ IF testing THEN dummyGet(k) ELSE cachedGet(k)
  /\ lastSettle' = NoSettle
  /\ lastInvalidate' = NoInvalidate
  /\ UNCHANGED <<testing, maxAgeMs, maxPendingAgeMs, maxSize, now>>

\* The get(key) of the innermost call returns its promise.
CallReturn ==
  /\ stack # <<>>
  /\ IF testing THEN dummyGetReturn ELSE cachedGetReturn
  /\ lastSettle' = NoSettle
  /\ lastInvalidate' = NoInvalidate
  /\ UNCHANGED <<testing, maxAgeMs, maxPendingAgeMs, maxSize, now>>

\* The get(key) of the innermost call throws: it returns no promise, so
\* none has settled.
CallThrow(error) ==
  /\ stack # <<>>
  /\ gets[Top.get].result = Pending
  /\ IF testing THEN dummyGetThrow(error) ELSE cachedGetThrow(error)
  /\ lastSettle' = NoSettle
  /\ lastInvalidate' = NoInvalidate
  /\ UNCHANGED <<testing, maxAgeMs, maxPendingAgeMs, maxSize, now>>

\* invalidate, were invalidate() to delete the key "undefined" only.
invalidateKeyOnly(m, key) == MapDelete(m, hashObject(key))

\* Lines 112-115: the Map after invalidate(key).
invalidate(m, key) ==
  IF Truthy(key) THEN MapDelete(m, hashObject(key)) ELSE <<>>

\* A caller, or the synchronous part of a producer, calls invalidate;
\* line 66 when the cache is disabled.
Invalidate(k) ==
  /\ Store(IF testing THEN cache ELSE invalidate(cache, KeyArg(k)),
           gets, ongoing, stack, NoCall)
  /\ lastSettle' = NoSettle
  /\ lastInvalidate' = [called |-> TRUE, key |-> k, size |-> Len(cache)]
  /\ UNCHANGED <<testing, maxAgeMs, maxPendingAgeMs, maxSize, now>>


\* Lines 87-90.
OnFulfilled(newGet, result) ==
  [newGet EXCEPT !.state = "success", !.promise = Resolved(result)]

\* OnRejected, were the error swallowed.
OnRejectedSwallow(newGet, error) ==
  [newGet EXCEPT !.state = "error", !.promise = Resolved("undefined")]

\* Lines 91-94.
OnRejected(newGet, error) ==
  [newGet EXCEPT !.state = "error", !.promise = Rejected(error)]

\* Then, were the reaction to update the objects of its key.
ThenByKey(newGet, g, outcome) ==
  IF gets[newGet.get].key # gets[g].key \/ newGet.state # "running" THEN newGet
  ELSE IF outcome.kind = "value" THEN OnFulfilled(newGet, outcome.v)
  ELSE OnRejected(newGet, outcome.v)


\* Then, were the reaction to run only while the Map still holds the object.
ThenIfCached(newGet, g, outcome) ==
  IF newGet.get # g \/ (\A i \in 1..Len(cache) : cache[i].get # g) THEN newGet
  ELSE IF outcome.kind = "value" THEN OnFulfilled(newGet, outcome.v)
  ELSE OnRejected(newGet, outcome.v)

\* Line 86: the reaction get(key).then(...) registered on invocation g.
Then(newGet, g, outcome) ==
  IF newGet.get # g THEN newGet
  ELSE IF outcome.kind = "value" THEN OnFulfilled(newGet, outcome.v)
  ELSE OnRejected(newGet, outcome.v)

\* The promise of invocation g of the producer settles: in a job of the
\* producer, or in a synchronous part, that of g included, so that get(key)
\* returns a promise already settled.  The reaction registered on it is
\* queued.  When the cache is disabled the caller holds this very promise.
Settle(g, outcome) ==
  /\ gets[g].result = Pending
  /\ Store(cache, [gets EXCEPT ![g].result = outcome], ongoing, stack, NoCall)
  /\ lastSettle' = [key |-> gets[g].key, result |-> outcome,
                    promise |-> IF testing THEN outcome ELSE Pending]
  /\ lastInvalidate' = NoInvalidate
  /\ UNCHANGED <<testing, maxAgeMs, maxPendingAgeMs, maxSize, now>>

\* Lines 87-94: the reaction registered on invocation g runs, a job of its
\* own, after the producer's promise has settled.
React(g) ==
  LET outcome == gets[g].result
      reacted == [i \in DOMAIN ongoing |-> Then(ongoing[i], g, outcome)]
  IN /\ ~testing
     /\ stack = <<>>
     /\ outcome # Pending
     /\ ongoing[g].state = "running"
     /\ Store(cache, gets, reacted, stack, NoCall)
     /\ lastSettle' = [key |-> gets[g].key, result |-> outcome,
                       promise |-> reacted[g].promise]
     /\ lastInvalidate' = NoInvalidate
     /\ UNCHANGED <<testing, maxAgeMs, maxPendingAgeMs, maxSize, now>>

\* Tick, were a timer to delete the entries older than maxAgeMs.
TickExpire ==
  /\ now < MaxTime
  /\ now' = now + 1
  /\ Store(SelectSeq(cache, LAMBDA e : ongoing[e.get].created > now + 1 - maxAgeMs),
           gets, ongoing, stack, NoCall)
  /\ lastSettle' = NoSettle
  /\ lastInvalidate' = NoInvalidate
  /\ UNCHANGED <<testing, maxAgeMs, maxPendingAgeMs, maxSize>>

\* Date.now() advances, between two jobs or while a producer runs its
\* synchronous part.
Tick ==
  /\ now < MaxTime
  /\ now' = now + 1
  /\ lastCall' = NoCall
  /\ lastSettle' = NoSettle
  /\ lastInvalidate' = NoInvalidate
  /\ UNCHANGED <<testing, maxAgeMs, maxPendingAgeMs, maxSize, cache, gets,
                 ongoing, stack>>

Next ==
  \/ \E k \in CallKeys : CallGet(k)
  \/ CallReturn
  \/ \E error \in Errors : CallThrow(error)
  \/ \E k \in KeyIds \cup {NoKey} : Invalidate(k)
  \/ \E g \in DOMAIN gets : \E outcome \in Outcomes : Settle(g, outcome)
  \/ \E g \in DOMAIN gets : React(g)
  \/ Tick

Spec == Init /\ [][Next]_vars

\* A cache created with one set of options and called with keys that are
\* options objects.
InitKeys == Init /\ ~testing /\ maxSize = 2

NextKeys ==
  \/ \E k \in OptionKeys : CallGet(k)
  \/ CallReturn
  \/ \E error \in Errors : CallThrow(error)
  \/ \E k \in OptionKeys \cup {NoKey} : Invalidate(k)
  \/ \E g \in DOMAIN gets : \E outcome \in Outcomes : Settle(g, outcome)
  \/ \E g \in DOMAIN gets : React(g)
  \/ Tick

SpecKeys == InitKeys /\ [][NextKeys]_vars

\* A cache of one entry called with two keys, under the scheduling of the
\* job queue: the synchronous part of a producer ends, by a return or a
\* throw, so every call open on the stack ends; and a reaction that is
\* queued is run once the stack is empty.
LiveKeys == {1, 2}

InitLive == Init /\ ~testing /\ maxSize = 1 /\ maxPendingAgeMs = 1

NextLive ==
  \/ \E k \in LiveKeys : CallGet(k)
  \/ CallReturn
  \/ \E error \in Errors : CallThrow(error)
  \/ \E k \in LiveKeys \cup {NoKey} : Invalidate(k)
  \/ \E g \in DOMAIN gets : \E outcome \in Outcomes : Settle(g, outcome)
  \/ \E g \in DOMAIN gets : React(g)
  \/ Tick

\* The call open at this depth of the stack ends.
CallEnds(depth) ==
  /\ Len(stack) = depth
  /\ (CallReturn \/ \E error \in Errors : CallThrow(error))

\* A queued reaction on an invocation for key k runs.  The queue runs every
\* job, so of the reactions for one key, queued again and again, one runs
\* again and again; no order among the queued jobs is assumed.
ReactionRuns(k) == \E g \in DOMAIN gets : gets[g].key = k /\ React(g)

SpecLive ==
  /\ InitLive
  /\ [][NextLive]_vars
  /\ \A depth \in 1..MaxPending : SF_vars(CallEnds(depth))
  /\ \A k \in LiveKeys : SF_vars(ReactionRuns(k))

----------------------------------------------------------------------------
(* Properties.                                                             *)

Range(q) == {q[i] : i \in 1..Len(q)}

\* The canonical key of key k.
HashOf(k) == hashObject(Keys[k])

\* The latest step was a step of a call of the wrapped function, with the
\* cache on.
Called == lastCall.key # NoKey /\ ~testing

\* The latest step was the lookup of a call (lines 72-86): the call reused
\* currentGet, or invoked the producer.
Looked == Called /\ lastCall.did \in {"reuse", "invoke"}

\* The latest step was the end of a call that invoked the producer (lines
\* 86-109): get(key) had returned, and the call stored newGet.
Stored == Called /\ lastCall.did = "store"

\* The entries of the table in order, object ids replaced by the objects.
View(c, g, o) ==
  [i \in 1..Len(c) |->
     [ hashedKey |-> c[i].hashedKey, created |-> o[c[i].get].created,
       state |-> o[c[i].get].state, promise |-> o[c[i].get].promise,
       started |-> g[c[i].get].started ]]

\* C1: a call for a key whose entry is running and younger than
\* maxPendingAgeMs invokes no producer, changes nothing in the table or the
\* heap, and is handed the promise of that entry.
C1_DedupPending ==
  [][ (lastCall'.did \in {"reuse", "invoke"} /\ ~testing) =>
        LET currentGet == MapGet(cache, HashOf(lastCall'.key))
        IN (/\ currentGet # 0
            /\ ongoing[currentGet].state = "running"
            /\ now - ongoing[currentGet].created < maxPendingAgeMs)
           => /\ lastCall'.did = "reuse"
              /\ lastCall'.id = currentGet
              /\ gets' = gets
              /\ ongoing' = ongoing
              /\ cache' = cache
              /\ stack' = stack ]_vars

\* A call joined the one computation running, whose entry was created at an
\* earlier instant.
C1_Witness ==
  /\ Looked
  /\ lastCall.did = "reuse"
  /\ lastCall.currentGet.state = "running"
  /\ lastCall.currentGet.created < now
  /\ ongoing[lastCall.id].promise = Pending
  /\ gets[lastCall.id].result = Pending
  /\ Cardinality(Unsettled(gets)) = 1

\* C2 as claimed: a call for a key whose entry succeeded reuses the entry
\* exactly when less than maxAgeMs passed since its producer invocation
\* started.
C2_Claimed ==
  (Looked /\ lastCall.currentGet.state = "success") =>
    (lastCall.did = "reuse" <=> now - lastCall.currentGet.started < maxAgeMs)


\* C3: a call for a key whose entry is in state error always invokes the
\* producer anew, and no call is handed the promise of an entry in state
\* error.
C3_NoNegativeCaching ==
  Looked =>
    /\ lastCall.did = "reuse" =>
         /\ lastCall.currentGet.state # "error"
         /\ ongoing[lastCall.id].state # "error"
    /\ lastCall.currentGet.state = "error" =>
         /\ lastCall.did = "invoke"
         /\ lastCall.id # lastCall.currentGet.id
         /\ gets[lastCall.id].result = Pending
         /\ gets[lastCall.id].started = now

\* A call found an entry that failed within the instant it was created, and
\* invoked the producer.
C3_Witness ==
  /\ Looked
  /\ lastCall.currentGet.state = "error"
  /\ lastCall.currentGet.created = now
  /\ maxPendingAgeMs > 0
  /\ lastCall.did = "invoke"

\* C4: the promise the cache makes of a producer invocation, which every
\* caller served by the entry holds, settles with the outcome of that
\* invocation and no other: the same value or the same error.
C4_OutcomeTransparency ==
  /\ lastSettle.promise # Pending => lastSettle.promise = lastSettle.result
  /\ \A i \in DOMAIN ongoing :
       ongoing[i].promise # Pending => ongoing[i].promise = gets[i].result
  /\ (Called /\ lastCall.did \in {"reuse", "store"}) =>
       /\ lastCall.id \in DOMAIN ongoing
       /\ ongoing[lastCall.id].state # "none"

\* The reaction ran on a producer invocation that failed, and the promise
\* of its object rejected with the error.
C4_Witness ==
  /\ ~testing
  /\ lastSettle.key # NoKey
  /\ lastSettle.promise = Rejected("E1")
  /\ \E i \in DOMAIN ongoing :
       /\ ongoing[i].state = "error"
       /\ ongoing[i].promise = Rejected("E1")
       /\ gets[i].key = lastSettle.key

\* C5: the table holds at most maxSize entries, and no key twice.
C5_SizeBound ==
  /\ Len(cache) <= maxSize
  /\ \A i, j \in 1..Len(cache) :
       cache[i].hashedKey = cache[j].hashedKey => i = j

\* A call that stored its entry found the table full and evicted.
C5_Witness ==
  /\ Stored
  /\ lastCall.extraKeys # <<>>
  /\ Len(cache) = maxSize

\* C6: a call for a key with no entry invokes the producer; the lookup of a
\* call leaves the table as it is; and the call that stores its entry and
\* leaves count > maxSize entries removes exactly the count - maxSize
\* entries that are first in insertion order, whatever their state and age,
\* and no others.
C6_EvictionPolicy ==
  [][ ~testing =>
        LET h == HashOf(lastCall'.key)
            inserted == MapKeys(MapDelete(cache, h)) \o <<h>>
            count == Len(inserted)
        IN /\ lastCall'.did \in {"reuse", "invoke"} =>
                /\ ~MapHas(cache, h) => lastCall'.did = "invoke"
                /\ MapKeys(cache') = MapKeys(cache)
                /\ lastCall'.extraKeys = <<>>
           /\ lastCall'.did = "store" =>
                IF count > maxSize
                THEN /\ Len(lastCall'.extraKeys) = count - maxSize
                     /\ lastCall'.extraKeys = SubSeq(inserted, 1, count - maxSize)
                     /\ MapKeys(cache') = SubSeq(inserted, count - maxSize + 1, count)
                ELSE /\ lastCall'.extraKeys = <<>>
                     /\ MapKeys(cache') = inserted ]_vars

\* With maxSize = 2, the third key stored evicted the first, whose
\* computation is still running.
C6_Witness ==
  /\ Stored
  /\ Len(lastCall.extraKeys) = 1
  /\ Len(cache) = 2
  /\ \E g \in Unsettled(gets) :
       /\ HashOf(gets[g].key) = lastCall.extraKeys[1]
       /\ ongoing[g].state = "running"
       /\ \A i \in 1..Len(cache) : cache[i].get # g

\* C7 as claimed, for the entry the latest call returned: the next call does
\* not evict it while it keeps an entry the latest call did not return.
C7_Claimed ==
  [][ (~testing /\ lastCall.did \in {"reuse", "store"}
         /\ lastCall'.did = "store") =>
        LET used == HashOf(lastCall.key)
        IN used \in Range(lastCall'.extraKeys) =>
             \A i \in 1..Len(cache) :
               cache[i].hashedKey # used =>
                 cache[i].hashedKey \in Range(lastCall'.extraKeys) ]_vars

\* C8: a call that stores an entry for a key that has one puts the new
\* entry last in the table, the others keeping their order; and the key
\* that is last in the table is not evicted by the call that stores next
\* while another entry is there to evict.
C8_RecencyBump ==
  [][ (lastCall'.did = "store" /\ ~testing) =>
        /\ MapHas(cache, HashOf(lastCall'.key)) =>
             /\ cache' # <<>>
             /\ cache'[Len(cache')].hashedKey = HashOf(lastCall'.key)
             /\ cache'[Len(cache')].get = lastCall'.id
             /\ lastCall'.extraKeys = <<>>
             /\ MapKeys(cache') =
                  MapKeys(MapDelete(cache, HashOf(lastCall'.key)))
                    \o <<HashOf(lastCall'.key)>>
        /\ Len(cache) >= 2 =>
             cache[Len(cache)].hashedKey \notin Range(lastCall'.extraKeys) ]_vars

\* A stale successful entry that was first of two in the table, the older
\* one, has been replaced and is now last.
C8_Witness ==
  /\ Stored
  /\ lastCall.currentGet.state = "success"
  /\ Len(cache) = 2
  /\ cache[2].hashedKey = HashOf(lastCall.key)
  /\ cache[2].get = lastCall.id
  /\ lastCall.currentGet.created < ongoing[cache[1].get].created

\* C9 as claimed: invalidate(k) with a key given leaves in the table exactly
\* the entries of the other keys, unchanged and in their order.
C9_Claimed ==
  [][ (lastInvalidate'.called /\ lastInvalidate'.key # NoKey /\ ~testing) =>
        View(cache', gets', ongoing') =
          View(MapDelete(cache, HashOf(lastInvalidate'.key)), gets, ongoing)
    ]_vars

\* C10: invalidate() leaves the table empty, and the call after it invokes
\* the producer.
C10_FullInvalidate ==
  [][ /\ (lastInvalidate'.called /\ lastInvalidate'.key = NoKey /\ ~testing)
           => cache' = <<>>
      /\ (lastInvalidate.called /\ lastInvalidate.key = NoKey
            /\ lastCall'.key # NoKey) =>
           /\ lastCall'.invoked
           /\ lastCall'.currentGet.state = "none" ]_vars

\* invalidate() emptied a table of two or more entries, one of them still
\* running.
C10_Witness ==
  /\ ~testing
  /\ lastInvalidate.called
  /\ lastInvalidate.key = NoKey
  /\ lastInvalidate.size >= 2
  /\ cache = <<>>
  /\ Unsettled(gets) # {}


\* The computations whose outcome is still to be delivered, oldest first:
\* key, start, outcome of the producer so far, and the promise of the object
\* the cache made of each (pending until the reaction has run).
Outstanding(g, o) ==
  LET ids == Unsettled(g) \cup Unreacted(o)
  IN [r \in 1..Cardinality(ids) |->
        LET i == Unrank(ids, r)
        IN [ key |-> g[i].key, started |-> g[i].started,
             result |-> g[i].result,
             promise |-> IF o = <<>> THEN Pending ELSE o[i].promise ]]

IsPrefix(s, t) == Len(s) <= Len(t) /\ SubSeq(t, 1, Len(s)) = s

\* C11: a step that invalidates or evicts leaves every computation whose
\* outcome is still to be delivered as it was, its promise pending; when the
\* reaction runs on a computation whose entry is no longer in the table,
\* its promise settles with the producer's outcome.
\* (Invalidate has no guard: it is taken whatever is still running.)
C11_RemovalKeepsOutstanding ==
  [][ /\ (lastInvalidate'.called \/ lastCall'.extraKeys # <<>>) =>
           Outstanding(gets', ongoing') = Outstanding(gets, ongoing)
      /\ ( /\ lastSettle'.key # NoKey
           /\ ~testing
           /\ Cardinality(Unsettled(gets')) = Cardinality(Unsettled(gets))
           /\ View(cache', gets', ongoing') = View(cache, gets, ongoing) ) =>
           /\ lastSettle'.result # Pending
           /\ lastSettle'.promise = lastSettle'.result ]_vars

\* The promise of a computation settled with the producer's value after its
\* entry had been removed and while the table holds no entry for its key.
C11_Witness ==
  /\ ~testing
  /\ lastSettle.key # NoKey
  /\ ~MapHas(cache, HashOf(lastSettle.key))
  /\ lastSettle.promise = Resolved("V1")
  /\ lastSettle.result = Resolved("V1")


\* Two keys are the same key: the same scalar, or composites with the same
\* field names and the same key under each name.
RECURSIVE SameKey(_, _)
SameKey(a, b) ==
  IF a.t # b.t THEN FALSE
  ELSE IF a.t # "object" THEN a = b
  ELSE LET names(o) == {o.f[i][1] : i \in 1..Len(o.f)}
       IN /\ names(a) = names(b)
          /\ \A n \in names(a) : SameKey(Field(a, n), Field(b, n))

\* C12 as claimed: a call that invokes no producer is served by a
\* computation started for the same key.
C12_Claimed ==
  (Looked /\ lastCall.did = "reuse") =>
    SameKey(Keys[lastCall.key], Keys[gets[lastCall.id].key])

\* The table holds an entry that a call with key k must reuse: its producer
\* was invoked for a key that is the same key as k, and it is fresh.
FreshFor(k) ==
  { i \in 1..Len(cache) :
      LET e == ongoing[cache[i].get]
      IN /\ SameKey(Keys[gets[cache[i].get].key], Keys[k])
         /\ \/ e.state = "running" /\ now - e.created < maxPendingAgeMs
            \/ e.state = "success" /\ now - e.created < maxAgeMs }

\* C13: keys that are the same key up to the order of their fields, at every
\* level, have the same canonical key, and a call with one is served by the
\* fresh entry a call with the other created, without invoking the producer.
C13_FieldOrder ==
  [][ /\ \A a \in DOMAIN Keys : \A b \in DOMAIN Keys :
           SameKey(Keys[a], Keys[b]) => hashObject(Keys[a]) = hashObject(Keys[b])
      /\ (lastCall'.did \in {"reuse", "invoke"} /\ ~testing) =>
           \A i \in FreshFor(lastCall'.key) :
             /\ lastCall'.did = "reuse"
             /\ lastCall'.id = cache[i].get
             /\ gets' = gets ]_vars

\* A call was served by the entry of a call that wrote the fields in the
\* other order.
C13_Witness ==
  /\ Looked
  /\ lastCall.did = "reuse"
  /\ Keys[lastCall.key] # Keys[gets[lastCall.id].key]
  /\ SameKey(Keys[lastCall.key], Keys[gets[lastCall.id].key])


Min(a, b) == IF a <= b THEN a ELSE b

\* C14 as claimed: the producer invocation that serves a call started less
\* than maxAgeMs before the call when the call reuses a success, and less
\* than maxPendingAgeMs before when it joins a running computation.
C14_Claimed ==
  (Looked /\ lastCall.did = "reuse") =>
    LET age == now - gets[lastCall.id].started
    IN /\ lastCall.currentGet.state = "success" => age < maxAgeMs
       /\ lastCall.currentGet.state = "running" => age < maxPendingAgeMs


\* A step keeps to the producer: a settled promise has a settled producer,
\* a pending promise with a settled producer has its reaction still to run
\* (or its call still to return, when the producer's promise settled
\* before), and the reaction settles the promise of its own computation and
\* no other.  No other step (a call, the clock, an eviction, an invalidate)
\* settles or drops a computation whose outcome is still to be delivered,
\* but for a producer that throws, which ends its own.
NoAddedBlockingStep ==
  LET settled == Cardinality(Unsettled(gets')) < Cardinality(Unsettled(gets))
      before == Outstanding(gets, ongoing)
      after == Outstanding(gets', ongoing')
  IN /\ \A i \in DOMAIN ongoing' :
          /\ ongoing'[i].promise # Pending => gets'[i].result # Pending
          /\ (ongoing'[i].promise = Pending /\ gets'[i].result # Pending)
               => \/ ongoing'[i].state = "running"
                  \/ /\ ongoing'[i].state = "none"
                     /\ \E f \in 1..Len(stack') : stack'[f].get = i
     /\ (lastSettle'.key # NoKey /\ settled /\ ~testing) =>
          /\ Len(after) = Len(before)
          /\ \E r \in 1..Len(after) :
               /\ after[r].result = lastSettle'.result
               /\ after[r].promise = Pending
               /\ before[r].result = Pending
     /\ (lastSettle'.key # NoKey /\ (~settled \/ testing)) =>
          /\ lastSettle'.promise # Pending
          /\ lastSettle'.promise = lastSettle'.result
          /\ Len(after) = Len(before) - 1
     /\ lastCall'.did = "throw" => Len(after) = Len(before) - 1
     /\ (lastSettle'.key = NoKey /\ lastCall'.did # "throw") =>
          IsPrefix(before, after)

\* Some computation for key k has its producer settled and its promise
\* still pending.
Undelivered(k) ==
  \E i \in DOMAIN ongoing :
    /\ gets[i].key = k
    /\ gets[i].result # Pending
    /\ ongoing[i].promise = Pending

\* The latest step settled the promise of a computation for key k, with the
\* outcome of its producer.
Delivered(k) ==
  /\ lastSettle.key = k
  /\ lastSettle.result # Pending
  /\ lastSettle.promise = lastSettle.result

C16_Claimed ==
  Stored =>
    /\ ongoing[lastCall.id].state = "running"
    /\ ongoing[lastCall.id].created = gets[lastCall.id].started


\* C17: a step of the clock changes neither the table nor the heap; a key
\* enters the table only when a call that invoked the producer for it stores
\* its entry; a key leaves the table only in an invalidate or as one of the
\* keys such a call evicts; and a call that reuses an entry, or whose
\* producer throws, leaves the table as it was.
C17_NoExpiry ==
  [][ LET before == Range(MapKeys(cache))
          after == Range(MapKeys(cache'))
      IN /\ now' # now =>
              cache' = cache /\ gets' = gets /\ ongoing' = ongoing
         /\ after \ before # {} =>
              /\ lastCall'.did = "store"
              /\ lastCall'.currentGet.state = "none"
              /\ after \ before = {HashOf(lastCall'.key)}
         /\ before \ after # {} =>
              \/ lastInvalidate'.called
              \/ /\ lastCall'.did = "store"
                 /\ before \ after \subseteq Range(lastCall'.extraKeys)
         /\ lastCall'.did \in {"reuse", "invoke", "throw"} =>
              MapKeys(cache') = MapKeys(cache)
         /\ lastCall'.did = "reuse" => cache' = cache ]_vars

\* The clock passed the window of a successful entry, which is still in the
\* table, and then a call reused another entry.
C17_Witness ==
  /\ Looked
  /\ lastCall.did = "reuse"
  /\ \E i \in 1..Len(cache) :
       /\ ongoing[cache[i].get].state = "success"
       /\ now - ongoing[cache[i].get].created >= maxAgeMs


\* C18 as claimed: with maxPendingAgeMs = 0, a call that finds a computation
\* for its key started at this very instant and still running joins it.
C18_Claimed ==
  ( /\ Looked
    /\ maxPendingAgeMs = 0
    /\ lastCall.currentGet.state = "running"
    /\ lastCall.currentGet.created = now ) => lastCall.did = "reuse"

\* C18, amended: with maxPendingAgeMs = 0 a call never joins a running
\* computation: it invokes the producer again, even at the instant the
\* running one was started; with maxPendingAgeMs > 0 a call at that instant
\* joins it.
C18_ZeroWindowNeverJoins ==
  (Looked /\ lastCall.currentGet.state = "running") =>
    /\ maxPendingAgeMs = 0 =>
         /\ lastCall.did = "invoke"
         /\ lastCall.id # lastCall.currentGet.id
         /\ gets[lastCall.id].started = now
         /\ gets[lastCall.id].result = Pending
    /\ (maxPendingAgeMs > 0 /\ lastCall.currentGet.created = now) =>
         /\ lastCall.did = "reuse"
         /\ lastCall.id = lastCall.currentGet.id

\* With maxPendingAgeMs = 0, a second call at the instant of the first, still
\* running, invoked the producer again: two invocations for the key run.
C18_Witness ==
  /\ Looked
  /\ maxPendingAgeMs = 0
  /\ lastCall.currentGet.state = "running"
  /\ lastCall.currentGet.created = now
  /\ lastCall.currentGet.started = now
  /\ lastCall.did = "invoke"
  /\ \E i \in Unsettled(gets) :
       i # lastCall.id /\ gets[i].key = lastCall.key /\ gets[i].started = now


\* C19: in a step that settles a producer invocation or runs the reaction
\* on one, the table keeps its entries and their order, at most one entry
\* changes, and an entry that changes was running, is the entry of the
\* invocation's key, and takes the state and the outcome of its own
\* producer invocation, which has settled; so when the computation is not
\* in the table, the table is as it was, and a newer entry for the same key
\* stays running.
C19_SupersededIsolated ==
  [][ (lastSettle'.key # NoKey /\ ~testing) =>
        LET before == View(cache, gets, ongoing)
            after == View(cache', gets', ongoing')
            changed == {i \in 1..Len(cache) : after[i] # before[i]}
            own2(i) == gets'[cache'[i].get].result
        IN /\ Len(cache') = Len(cache)
           /\ Cardinality(changed) <= 1
           /\ \A i \in changed :
                /\ before[i].state = "running"
                /\ before[i].promise = Pending
                /\ own2(i) # Pending
                /\ own2(i) = lastSettle'.result
                /\ before[i].hashedKey = HashOf(lastSettle'.key)
                /\ after[i] =
                     [before[i] EXCEPT
                        !.state = IF own2(i).kind = "value"
                                  THEN "success" ELSE "error",
                        !.promise = own2(i)]
           /\ (\A i \in 1..Len(cache) :
                 gets[cache[i].get].result = Pending) => changed = {} ]_vars

\* The reaction ran on a computation while the table holds a newer entry
\* for its key, which is still running, its producer still pending.
C19_Witness ==
  /\ ~testing
  /\ lastSettle.key # NoKey
  /\ lastSettle.promise # Pending
  /\ MapHas(cache, HashOf(lastSettle.key))
  /\ LET e == MapGet(cache, HashOf(lastSettle.key))
     IN /\ ongoing[e].state = "running"
        /\ ongoing[e].promise = Pending
        /\ gets[e].result = Pending
        /\ gets[e].key = lastSettle.key


\* C20 as claimed, for two invocations of the producer for one key in two
\* successive steps, so that nothing is evicted or invalidated between them
\* and the earlier one has not failed: at least min(maxAgeMs,
\* maxPendingAgeMs) elapsed between their starts.
C20_Claimed ==
  [][ ( /\ ~testing
        /\ lastCall.did = "invoke"
        /\ lastCall'.did = "invoke"
        /\ lastCall'.key = lastCall.key ) =>
        gets'[lastCall'.id].started - gets[lastCall.id].started
          >= Min(maxAgeMs, maxPendingAgeMs) ]_vars



====
